---- MODULE Spec2Model ----
(***************************************************************************)
(* Model of the five MCP tools of ebaymcp.py.                              *)
(*                                                                         *)
(* Number representation.  Every decimal literal of the source is held as  *)
(* an integer count of hundredths: 85.00 is 8500, 7.6 is 760, 230.50 is    *)
(* 23050.  Counts (data_points, quantity, max_units, ...) are plain        *)
(* integers.  A product of two scaled values has scale 10000 and is        *)
(* compared only against values of the same scale.                         *)
(*                                                                         *)
(* Each tool is one action.  The action records the call in `last` and     *)
(* the dict the tool returns in `result`.  The tools keep no state of      *)
(* their own, so the remaining variables are the environment the           *)
(* tools run in (the clock, the listing store) and the history of          *)
(* returned snapshots.                                                     *)
(***************************************************************************)
EXTENDS Integers, Sequences, FiniteSets, TLC

VARIABLES last, result, now, listed, catalog, autoHist

vars == <<last, result, now, listed, catalog, autoHist>>

\* ---------------------------------------------------------------- bounds
MaxTime == 1

\* ---------------------------------------------------------------- inputs
ProductNames == {"Dominaria United Draft Booster Box", "Modern Horizons 3 Collector Box"}

UpdateFrequencies == {"auto", "force", "hourly"}

\* min_profit_margin, in hundredths of a percent (1000 is the default 10.0)
MinProfitMargins == {500, 760, 1000}

\* max_investment, in cents (100000 is the default 1000.0)
MaxInvestments == {-8500, -1, 0, 8499, 100000}

InvestmentHorizons == {"short", "medium", "long", "forever"}

ScanTypes == {"trending", "undervalued", "arbitrage", "new_listings", "bogus"}

PriceRanges == {"under100", "100-500", "500-1000", "over1000", "0-50"}

TimePeriods == {"7d"}

\* product prices, in cents, tried by the price-range filter
TestPrices == {-1, 0, 8999, 9999, 10000, 10001, 14500, 50000, 50001, 100000, 100001}

\* Python's None; an optional value is a sequence of at most one element
None == <<>>

\* ------------------------------------------------- track_product_prices
\* a variant that recomputes from the listing store on every call
AnalysisLive(product_name) ==
    [ product_name          |-> product_name,
      data_points           |-> IF product_name \in listed THEN 25 ELSE 0,
      date_range            |-> 30,
      sold_listings         |-> IF product_name \in listed THEN 15 ELSE 0,
      active_listings       |-> IF product_name \in listed THEN 10 ELSE 0,
      avg_sold_price        |-> 8999,
      median_sold_price     |-> 8750,
      min_sold_price        |-> 7500,
      max_sold_price        |-> 10500,
      sold_price_volatility |-> 825,
      avg_active_price      |-> 9250,
      median_active_price   |-> 9000,
      min_active_price      |-> 8500,
      max_active_price      |-> 11000 ]

Analysis(product_name) ==
    [ product_name          |-> product_name,
      data_points           |-> 25,
      date_range            |-> 30,
      sold_listings       |-> 15,
      active_listings     |-> 10,
      avg_sold_price        |-> 8999,
      median_sold_price     |-> 8750,
      min_sold_price        |-> 7500,
      max_sold_price        |-> 10500,
      sold_price_volatility |-> 825,
      avg_active_price      |-> 9250,
      median_active_price   |-> 9000,
      min_active_price      |-> 8500,
      max_active_price      |-> 11000 ]

\* avg_active_price < avg_sold_price * 1.1, both sides times 10
Recommendation(analysis) ==
    IF analysis.avg_active_price * 10 < analysis.avg_sold_price * 11
    THEN "Good buying opportunity"
    ELSE "Monitor for better prices"

TrackResult(product_name, update_frequency) ==
    LET force_update == (update_frequency = "force")
        analysis == Analysis(product_name)
    IN  [ success        |-> TRUE,
          data           |-> analysis,
          summary        |-> <<"Found", analysis.data_points, "listings for", product_name>>,
          recommendation |-> Recommendation(analysis) ]

\* the snapshots returned by the "auto" calls for one product: the last two
Remember(hist, entry) ==
    IF Len(hist) < 2 THEN Append(hist, entry) ELSE <<hist[2], entry>>

track_product_prices(product_name, update_frequency) ==
    /\ last' = [ op |-> "track_product_prices", product_name |-> product_name,
                 update_frequency |-> update_frequency,
                 at |-> now, has_listings |-> (product_name \in listed) ]
    /\ result' = TrackResult(product_name, update_frequency)
    /\ autoHist' = IF update_frequency = "auto"
                   THEN [autoHist EXCEPT ![product_name] =
                            Remember(@, [data |-> result'.data, at |-> now])]
                   ELSE autoHist
    /\ UNCHANGED <<now, listed, catalog>>

\* ----------------------------------------- find_arbitrage_opportunities
\* Python's int(a / b) for b > 0: the quotient truncated towards zero
IntDiv(a, b) == IF a >= 0 THEN a \div b ELSE -((-a) \div b)

\* a variant whose net_profit is the gross spread, fees not deducted
OpportunitiesGross ==
    << [ buy_price        |-> 8500,
         sell_price       |-> 9500,
         net_profit       |-> 1000,
         roi_percentage   |-> 760,
         confidence_score |-> 78,
         estimated_fees   |-> 350,
         buy_source       |-> "eBay Auctions",
         sell_source      |-> "eBay Buy-It-Now" ] >>

Opportunities ==
    << [ buy_price        |-> 8500,
         sell_price       |-> 9500,
         net_profit       |-> 650,
         roi_percentage   |-> 760,
         confidence_score |-> 78,
         estimated_fees   |-> 350,
         buy_source       |-> "eBay Auctions",
         sell_source      |-> "eBay Buy-It-Now" ] >>

ArbitrageResult(product_name, min_profit_margin, max_investment) ==
    LET opportunities == Opportunities
    IN  IF Len(opportunities) > 0
        THEN LET best_opp == opportunities[1]
                 max_units == IntDiv(max_investment, best_opp.buy_price)
                 total_profit == best_opp.net_profit * max_units
             IN  [ success             |-> TRUE,
                   opportunities_found |-> Len(opportunities),
                   best_opportunity    |-> best_opp,
                   scaled_analysis     |-> [ max_units        |-> max_units,
                                             total_profit     |-> total_profit,
                                             total_investment |-> max_investment ],
                   product_name        |-> product_name ]
        ELSE [ success             |-> TRUE,
               opportunities_found |-> 0,
               message             |-> <<"No arbitrage opportunities found for", product_name,
                                         "with", min_profit_margin, "% minimum margin">>,
               product_name        |-> product_name ]

find_arbitrage_opportunities(product_name, min_profit_margin, max_investment) ==
    /\ last' = [ op |-> "find_arbitrage_opportunities", product_name |-> product_name,
                 min_profit_margin |-> min_profit_margin,
                 max_investment |-> max_investment ]
    /\ result' = ArbitrageResult(product_name, min_profit_margin, max_investment)
    /\ UNCHANGED <<now, listed, catalog, autoHist>>

\* ----------------------------------------- analyze_investment_potential
\* {"short": 0.5, "medium": 1.0, "long": 2.0}.get(h, 1.0), counted in halves
HorizonMultiplier(investment_horizon) ==
    CASE investment_horizon = "short"  -> 1
      [] investment_horizon = "medium" -> 2
      [] investment_horizon = "long"   -> 4
      [] OTHER                         -> 2

InvestmentAnalysis(product_name, investment_horizon) ==
    LET horizon_multiplier == HorizonMultiplier(investment_horizon)
    IN  [ product_name       |-> product_name,
          investment_score   |-> 7250,
          risk_level         |-> "Medium",
          current_avg_price  |-> 8999,
          price_trend_pct    |-> 520,
          volatility_pct     |-> 1280,
          target_price_6m    |-> (9450 * horizon_multiplier) \div 2,
          target_price_1y    |-> (10200 * horizon_multiplier) \div 2,
          data_points        |-> 150,
          recommendation     |-> "Buy - Good investment opportunity with solid fundamentals",
          investment_horizon |-> investment_horizon ]

\* potential_upside_pct is kept as the exact fraction num / den
InvestmentResult(product_name, investment_horizon) ==
    LET analysis == InvestmentAnalysis(product_name, investment_horizon)
        potential_upside ==
            [ num |-> (analysis.target_price_1y - analysis.current_avg_price) * 100,
              den |-> analysis.current_avg_price ]
    IN  [ success              |-> TRUE,
          analysis             |-> analysis,
          potential_upside_pct |-> potential_upside,
          strategy_tips        |->
            << IF analysis.volatility_pct > 2000
               THEN "Dollar-cost average over 2-3 months"
               ELSE "Consider lump sum investment",
               IF analysis.price_trend_pct < 0
               THEN <<"Wait for price dip below $",
                      (analysis.current_avg_price * 95 + 50) \div 100,
                      "for better entry">>
               ELSE <<"Current pricing appears favorable">>,
               IF analysis.data_points > 50
               THEN "High liquidity expected"
               ELSE "Monitor liquidity before large positions" >> ]

analyze_investment_potential(product_name, investment_horizon) ==
    /\ last' = [ op |-> "analyze_investment_potential", product_name |-> product_name,
                 investment_horizon |-> investment_horizon ]
    /\ result' = InvestmentResult(product_name, investment_horizon)
    /\ UNCHANGED <<now, listed, catalog, autoHist>>

\* ------------------------------------------------------- market_scanner
\* the two mock products; their prices are read from `catalog`
ScanOpportunities(scan_type, prices) ==
    << [ product |-> "Dominaria United Draft Booster Box",
         price   |-> prices[1],
         metric  |-> 1250,
         data    |-> IF scan_type = "trending" THEN "$89.99 (+12.5% trend)"
                                               ELSE "$89.99 (15.2% ROI)",
         trend   |-> IF scan_type = "trending" THEN <<1250>> ELSE None ],
       [ product |-> "The Brothers War Set Booster Box",
         price   |-> prices[2],
         metric  |-> 870,
         data    |-> IF scan_type = "trending" THEN "$145.00 (+8.7% trend)"
                                               ELSE "$145.00 (8.7% ROI)",
         trend   |-> IF scan_type = "trending" THEN <<870>> ELSE None ] >>

\* price_min, price_max = 0, float('inf') and the if/elif chain; bounded is
\* FALSE while price_max is still float('inf')
PriceBounds(price_range) ==
    CASE price_range = "under100" -> [price_min |-> 0,      price_max |-> 10000,  bounded |-> TRUE]
      [] price_range = "100-500"  -> [price_min |-> 10000,  price_max |-> 50000,  bounded |-> TRUE]
      [] price_range = "500-1000" -> [price_min |-> 50000,  price_max |-> 100000, bounded |-> TRUE]
      [] price_range = "over1000" -> [price_min |-> 100000, price_max |-> 0,      bounded |-> FALSE]
      [] OTHER                    -> [price_min |-> 0,      price_max |-> 0,      bounded |-> FALSE]

\* price_min <= opp["price"] <= price_max
InPriceRange(price, b) ==
    /\ b.price_min <= price
    /\ (~b.bounded \/ price <= b.price_max)

\* the list comprehension: the elements that pass, in order
RECURSIVE FilterByPrice(_, _)
FilterByPrice(opps, b) ==
    IF opps = <<>> THEN <<>>
    ELSE LET rest == FilterByPrice(Tail(opps), b)
         IN  IF InPriceRange(Head(opps).price, b) THEN <<Head(opps)>> \o rest ELSE rest

\* price_range.replace('-', ' - ')
ReplaceDash(price_range) ==
    CASE price_range = "100-500"  -> "100 - 500"
      [] price_range = "500-1000" -> "500 - 1000"
      [] price_range = "0-50"     -> "0 - 50"
      [] OTHER                    -> price_range

ScanResult(scan_type, price_range, time_period, prices) ==
    LET opportunities == ScanOpportunities(scan_type, prices)
        filtered_opportunities == FilterByPrice(opportunities, PriceBounds(price_range))
    IN  [ success             |-> TRUE,
          scan_type           |-> scan_type,
          price_range         |-> price_range,
          time_period         |-> time_period,
          products_analyzed   |-> 10,
          opportunities_found |-> Len(filtered_opportunities),
          opportunities       |-> filtered_opportunities,
          summary             |-> <<"Found", Len(filtered_opportunities), scan_type,
                                    "opportunities in $", ReplaceDash(price_range), "range">> ]

market_scanner(scan_type, price_range, time_period) ==
    /\ last' = [ op |-> "market_scanner", scan_type |-> scan_type,
                 price_range |-> price_range, time_period |-> time_period ]
    /\ result' = ScanResult(scan_type, price_range, time_period, catalog)
    /\ UNCHANGED <<now, listed, catalog, autoHist>>

\* ------------------------------------------------- get_portfolio_summary
Portfolio ==
    [ total_invested          |-> 245000,
      current_value           |-> 268050,
      unrealized_pnl          |-> 23050,
      unrealized_pnl_pct      |-> 940,
      active_positions        |-> 5,
      avg_holding_period_days |-> 120,
      holdings |->
        << [ product_name  |-> "Dominaria United Draft Booster Box",
             quantity      |-> 3,
             total_cost    |-> 27000,
             current_value |-> 28500,
             pnl           |-> 1500,
             pnl_pct       |-> 560,
             holding_days  |-> 90,
             purchase_date |-> "2024-03-01" ],
           [ product_name  |-> "Modern Horizons 3 Collector Box",
             quantity      |-> 1,
             total_cost    |-> 38000,
             current_value |-> 42000,
             pnl           |-> 4000,
             pnl_pct       |-> 1050,
             holding_days  |-> 60,
             purchase_date |-> "2024-04-15" ] >> ]

\* max(holdings, key=pnl_pct): the first element with the largest key
MaxByPnlPct(holdings) ==
    holdings[CHOOSE i \in 1..Len(holdings) :
                /\ \A j \in 1..Len(holdings) : holdings[j].pnl_pct <= holdings[i].pnl_pct
                /\ \A j \in 1..(i - 1) : holdings[j].pnl_pct < holdings[i].pnl_pct]

\* min(holdings, key=pnl_pct): the first element with the smallest key
MinByPnlPct(holdings) ==
    holdings[CHOOSE i \in 1..Len(holdings) :
                /\ \A j \in 1..Len(holdings) : holdings[j].pnl_pct >= holdings[i].pnl_pct
                /\ \A j \in 1..(i - 1) : holdings[j].pnl_pct > holdings[i].pnl_pct]

PortfolioResult ==
    LET portfolio == Portfolio
    IN  IF portfolio.active_positions > 0
        THEN [ success     |-> TRUE,
               portfolio   |-> portfolio,
               performance |->
                 [ best_performer  |-> MaxByPnlPct(portfolio.holdings),
                   worst_performer |-> MinByPnlPct(portfolio.holdings),
                   overall_status  |->
                     IF portfolio.unrealized_pnl_pct > 1000 THEN "Strong performance"
                     ELSE IF portfolio.unrealized_pnl_pct > 0 THEN "Moderate performance"
                     ELSE "Underperforming" ],
               recommendations |->
                 << IF \E i \in 1..Len(portfolio.holdings) : portfolio.holdings[i].pnl_pct > 2500
                    THEN "Consider profit-taking on outperformers"
                    ELSE "Hold current positions",
                    IF portfolio.unrealized_pnl_pct > 0
                    THEN "Portfolio trending well"
                    ELSE "Review underperforming assets" >> ]
        ELSE [ success   |-> TRUE,
               portfolio |-> [active_positions |-> 0],
               message   |-> "Portfolio is empty. Start by recording some investments!" ]

get_portfolio_summary ==
    /\ last' = [ op |-> "get_portfolio_summary" ]
    /\ result' = PortfolioResult
    /\ UNCHANGED <<now, listed, catalog, autoHist>>

\* ------------------------------------------------------------ environment
Tick ==
    /\ now < MaxTime
    /\ now' = now + 1
    /\ UNCHANGED <<last, result, listed, catalog, autoHist>>

\* the listing store gains or loses every listing of one product
Ingest ==
    \E p \in ProductNames :
        /\ listed' = IF p \in listed THEN listed \ {p} ELSE listed \cup {p}
        /\ UNCHANGED <<last, result, now, catalog, autoHist>>

\* ------------------------------------------------------------------ spec
MockCatalogPrices == <<8999, 14500>>

Init ==
    /\ last = [op |-> "none"]
    /\ result = [success |-> TRUE]
    /\ now = 0
    /\ listed \in SUBSET ProductNames
    /\ catalog = MockCatalogPrices
    /\ autoHist = [p \in ProductNames |-> <<>>]

Next ==
    \/ Tick
    \/ Ingest
    \/ \E p \in ProductNames, uf \in UpdateFrequencies : track_product_prices(p, uf)
    \/ \E p \in ProductNames, m \in MinProfitMargins, i \in MaxInvestments :
          find_arbitrage_opportunities(p, m, i)
    \/ \E p \in ProductNames, h \in InvestmentHorizons : analyze_investment_potential(p, h)
    \/ \E s \in ScanTypes, r \in PriceRanges, t \in TimePeriods : market_scanner(s, r, t)
    \/ get_portfolio_summary

\* the price-range filter over catalogs of arbitrary prices
InitScan ==
    /\ last = [op |-> "none"]
    /\ result = [success |-> TRUE]
    /\ now = 0
    /\ listed = {}
    /\ catalog \in [1..2 -> TestPrices]
    /\ autoHist = [p \in ProductNames |-> <<>>]

NextScan ==
    \E s \in ScanTypes, r \in PriceRanges, t \in TimePeriods : market_scanner(s, r, t)

SpecScan == InitScan /\ [][NextScan]_vars

Spec == Init /\ [][Next]_vars

\* ================================================================ claims
Abs(x) == IF x < 0 THEN -x ELSE x

ValidPriceRanges == {"under100", "100-500", "500-1000", "over1000"}

ValidScanTypes == {"trending", "undervalued", "arbitrage", "new_listings"}

CalledArbitrage == last.op = "find_arbitrage_opportunities"

CalledTrack == last.op = "track_product_prices"

CalledScanner == last.op = "market_scanner"

CalledPortfolio == last.op = "get_portfolio_summary"

\* C1: find_arbitrage_opportunities never returns a best_opportunity whose
\* roi_percentage is below the min_profit_margin it was called with, and
\* never counts one in opportunities_found.
C1_RoiAtLeastMargin ==
    (CalledArbitrage /\ result.success /\ result.opportunities_found > 0) =>
        /\ "best_opportunity" \in DOMAIN result
        /\ result.best_opportunity.roi_percentage >= last.min_profit_margin

\* C2: a track_product_prices call for a product that has zero listings
\* returns success = false with an error, never success = true with price
\* statistics.
C2_NoListingsFails ==
    (CalledTrack /\ ~last.has_listings) =>
        /\ ~result.success
        /\ "error" \in DOMAIN result
        /\ "data" \notin DOMAIN result

\* C3: market_scanner called with an unknown price_range or an unknown
\* scan_type returns success = false.
C3_UnknownScanInputFails ==
    (CalledScanner /\ (last.price_range \notin ValidPriceRanges
                       \/ last.scan_type \notin ValidScanTypes)) =>
        ~result.success

\* the documented intervals: under100 = [0,100), 100-500 = [100,500],
\* 500-1000 = [500,1000], over1000 = [1000,infinity)
InDocumentedRange(price_range, price) ==
    CASE price_range = "under100" -> 0 <= price /\ price < 10000
      [] price_range = "100-500"  -> 10000 <= price /\ price <= 50000
      [] price_range = "500-1000" -> 50000 <= price /\ price <= 100000
      [] price_range = "over1000" -> 100000 <= price
      [] OTHER                    -> FALSE

\* the catalog positions whose product appears in the returned list
Included(i) ==
    \E j \in 1..Len(result.opportunities) :
        result.opportunities[j].product = ScanOpportunities(last.scan_type, catalog)[i].product

RECURSIVE SumPnl(_)
SumPnl(holdings) ==
    IF holdings = <<>> THEN 0 ELSE Head(holdings).pnl + SumPnl(Tail(holdings))

\* C5: in every successful non-empty result of get_portfolio_summary the sum
\* of the holdings' pnl fields equals the portfolio's unrealized_pnl.
C5_PnlSumsToUnrealized ==
    (CalledPortfolio /\ result.success /\ "holdings" \in DOMAIN result.portfolio) =>
        (Len(result.portfolio.holdings) > 0 =>
            SumPnl(result.portfolio.holdings) = result.portfolio.unrealized_pnl)

\* the computed_at a track result carries, if any
ComputedAt(r) ==
    IF "computed_at" \in DOMAIN r THEN <<r.computed_at>>
    ELSE IF "data" \in DOMAIN r /\ "computed_at" \in DOMAIN r.data THEN <<r.data.computed_at>>
    ELSE <<>>

\* C6: after a track_product_prices call with update_frequency = "force" the
\* snapshot's computed_at is the time of that call.
C6_ForceResetsComputedAt ==
    (CalledTrack /\ last.update_frequency = "force") =>
        ComputedAt(result) = <<last.at>>

\* C7: two consecutive "auto" calls of track_product_prices for the same
\* product return identical snapshots, whatever happened between them
\* (time passing, changes of the listing store, calls for other products,
\* "force" calls, the other tools).
C7_AutoCallsAgree ==
    \A p \in ProductNames :
        Len(autoHist[p]) = 2 => autoHist[p][1].data = autoHist[p][2].data

\* two "auto" calls for one product at different times, another call since
C7_Witness ==
    \E p \in ProductNames :
        /\ Len(autoHist[p]) = 2
        /\ autoHist[p][1].at < autoHist[p][2].at
        /\ CalledTrack /\ last.product_name = p /\ last.update_frequency = "auto"

\* C8: whenever a scaled_analysis is returned, max_units is
\* floor(max_investment / buy_price) and total_profit is net_profit times
\* max_units, for every max_investment given.
C8_MaxUnitsIsFloor ==
    (CalledArbitrage /\ "scaled_analysis" \in DOMAIN result) =>
        /\ result.scaled_analysis.max_units =
              last.max_investment \div result.best_opportunity.buy_price
        /\ result.scaled_analysis.total_profit =
              result.best_opportunity.net_profit * result.scaled_analysis.max_units

C10_NonPositiveInvestmentFails ==
    (CalledArbitrage /\ last.max_investment <= 0) =>
        /\ ~result.success
        /\ "error" \in DOMAIN result
        /\ "scaled_analysis" \notin DOMAIN result
====
